---- MODULE Spec2Model ----
(***************************************************************************)
(* A model of the lattice-Boltzmann solver of src/server.js: the lattice   *)
(* built by initLattice, the pair LATTICE / GHOST_LATTICE, propagate and   *)
(* bouncebackObstacles, equilibrium, collision / fastCollision, the driver *)
(* collideAndStream and the generator simulate.                            *)
(*                                                                         *)
(* Numbers.  JavaScript numbers are modelled as exact rationals <<n, d>>   *)
(* in lowest terms with d > 0; IEEE-754 rounding (and the Float32Array     *)
(* store's rounding) is not modelled.  Values that can be undefined or NaN *)
(* are tagged records (Undefined, NaN, Num(r)).                            *)
(***************************************************************************)
EXTENDS Integers, Sequences, FiniteSets, TLC

VARIABLES
    heap,            \* the Map objects: heap[ref] is a function key -> cell
    LATTICE,         \* server.js:139, the object initLattice returned
    GHOST_LATTICE,   \* server.js:140, Object.assign({}, LATTICE)
    isGhost,         \* server.js:65
    omega,           \* server.js:50 (a let binding)
    accelX,          \* server.js:52
    pc,              \* position of simulate / of the function under test
    t,               \* simulate's step counter
    y, x, i,         \* collideAndStream's loop counters
    currentLattice,  \* collideAndStream's local: the name of the lattice it returns
    processed,       \* simulate's local
    yields,          \* how many times simulate has yielded LATTICE
    sweeps,          \* history: calls of propagate in the current time step
    collided,        \* history: collisions of each cell in the current time step
    srcBefore,       \* history: the read buffer's cells when the last sweep began
    uF, uEq, uRelax, uAccel, uOut  \* inputs and result of a function under test

vars == <<heap, LATTICE, GHOST_LATTICE, isGhost, omega, accelX, pc, t, y, x, i,
          currentLattice, processed, yields, sweeps, collided, srcBefore,
          uF, uEq, uRelax, uAccel, uOut>>

-----------------------------------------------------------------------------
(* Bounds of the model and constants of the program *)

\* grid height; the program's value (server.js:68) is 20
rows == 3
\* grid width; the program's value (server.js:69) is 60
cols == 3
\* number of random obstacle draws; the program's value (server.js:122) is 100
NumSolidDraws == 1
\* largest impulse (in units of 1/36) added to a test distribution
MaxImpulse == 1

\* number of time steps; the program's value (server.js:62) is 5
T_MAX == 2

STEPS_IN_FRAME == 5

-----------------------------------------------------------------------------
(* Exact rational arithmetic *)

Abs(n) == IF n < 0 THEN -n ELSE n

RECURSIVE GCD(_, _)
GCD(a, b) == IF b = 0 THEN a ELSE GCD(b, a % b)

Rat(n, d) ==
    LET g == GCD(Abs(n), Abs(d))
        s == IF d < 0 THEN -1 ELSE 1
    IN  <<(s * n) \div g, (s * d) \div g>>

RNum(n) == <<n, 1>>
RNeg(a) == <<-a[1], a[2]>>
RAdd(a, b) ==
    IF a[1] = 0 THEN b
    ELSE IF b[1] = 0 THEN a
    ELSE IF a[2] = b[2] THEN Rat(a[1] + b[1], a[2])
    ELSE LET g == GCD(a[2], b[2])
             l == (a[2] \div g) * b[2]
         IN  Rat(a[1] * (l \div a[2]) + b[1] * (l \div b[2]), l)
RSub(a, b) == RAdd(a, RNeg(b))
RMul(a, b) ==
    IF a[1] = 0 \/ b[1] = 0 THEN <<0, 1>>
    ELSE IF a[2] = 1 /\ b[2] = 1 THEN <<a[1] * b[1], 1>>
    ELSE LET g1 == GCD(Abs(a[1]), b[2])
             g2 == GCD(Abs(b[1]), a[2])
         IN  <<(a[1] \div g1) * (b[1] \div g2), (a[2] \div g2) * (b[2] \div g1)>>
RInv(a) == IF a[1] < 0 THEN <<-a[2], -a[1]>> ELSE <<a[2], a[1]>>
RDiv(a, b) == RMul(a, RInv(b))
RPos(a) == a[1] > 0
RLess(a, b) == RSub(a, b)[1] < 0
RZero == <<0, 1>>
ROne == <<1, 1>>

-----------------------------------------------------------------------------
(* JavaScript values that may be undefined or NaN *)

Undefined == [tag |-> "undefined"]
NaN == [tag |-> "NaN"]
Num(r) == [tag |-> "num", val |-> r]

\* ToNumber(v) + r  and  ToNumber(v) - r : undefined and NaN give NaN
JsAdd(v, r) == IF v.tag = "num" THEN Num(RAdd(v.val, r)) ELSE NaN
JsSub(v, r) == IF v.tag = "num" THEN Num(RSub(v.val, r)) ELSE NaN
\* a < b : false when either side is NaN
JsLess(a, b) == a.tag = "num" /\ b.tag = "num" /\ RLess(a.val, b.val)
\* if (v) : undefined, NaN and 0 are falsy
Truthy(v) == v.tag = "num" /\ v.val[1] # 0

-----------------------------------------------------------------------------
(* The D2Q9 constants *)

Dirs == 0..8

w0 == <<4, 9>>
w1 == <<1, 9>>
w2 == <<1, 36>>

\* 0, N, NE, E, SE, S, SW, W, NW (clockwise)
weights == [k \in Dirs |-> IF k = 0 THEN w0 ELSE IF k % 2 = 1 THEN w1 ELSE w2]
ex == [k \in Dirs |-> IF k \in {2, 3, 4} THEN 1 ELSE IF k \in {6, 7, 8} THEN -1 ELSE 0]
ey == [k \in Dirs |-> IF k \in {1, 2, 8} THEN 1 ELSE IF k \in {4, 5, 6} THEN -1 ELSE 0]

tau == <<3, 5>>
accelY == RZero
rho0 == ROne
\* const accelX = 1e-6
accelXConfigured == <<1, 1000000>>

Coords == (0..(cols - 1)) \X (0..(rows - 1))

-----------------------------------------------------------------------------
(* Macroscopic quantities *)

RECURSIVE SumFrom(_, _, _)
\* acc + f[k] + f[k+1] + ... + f[8], added in the loop's order
SumFrom(f, k, acc) == IF k > 8 THEN acc ELSE SumFrom(f, k + 1, RAdd(acc, f[k]))

getDensity(densities) == SumFrom(densities, 0, RZero)

momentumX(densities) == SumFrom([k \in Dirs |-> RMul(RNum(ex[k]), densities[k])], 0, RZero)
momentumY(densities) == SumFrom([k \in Dirs |-> RMul(RNum(ey[k]), densities[k])], 0, RZero)

\* tDensity < 1e-14: a rational n/d with 32-bit n, d is below 1e-14 iff n <= 0
BelowEps(r) == r[1] <= 0

getVelocity(densities) ==
    LET tDensity == getDensity(densities)
        vx == momentumX(densities)
        vy == momentumY(densities)
    IN  IF BelowEps(tDensity) THEN <<RZero, RZero>>
        ELSE <<RDiv(vx, tDensity), RDiv(vy, tDensity)>>

-----------------------------------------------------------------------------
(* equilibrium, collision, fastCollision *)

\* a slip: the sum starts at 0 and the loop still starts at i = 1
totalDensityFromZero(densities) == SumFrom(densities, 1, RZero)

\* totalDensity = densities[0]; for (i = 1; i < 9; i++) totalDensity += densities[i]
totalDensityOf(densities) == SumFrom(densities, 1, densities[0])

equilibrium(densities, accelXTau, accelYTau) ==
    LET totalDensity == totalDensityOf(densities)
        mx == SumFrom([k \in Dirs |-> RMul(RNum(ex[k]), densities[k])], 1,
                      RMul(RNum(ex[0]), densities[0]))
        my == SumFrom([k \in Dirs |-> RMul(RNum(ey[k]), densities[k])], 1,
                      RMul(RNum(ey[0]), densities[0]))
        ux0 == IF RPos(totalDensity) THEN RDiv(mx, totalDensity) ELSE mx
        uy == IF RPos(totalDensity) THEN RDiv(my, totalDensity) ELSE my
        ux == IF Truthy(accelXTau) THEN RAdd(ux0, accelXTau.val) ELSE ux0
        u2 == RAdd(RMul(ux, ux), RMul(uy, uy))
        c1 == <<3, 1>>
        c2 == <<9, 2>>
        c3 == <<-3, 2>>
        term(k) == RAdd(RMul(RNum(ex[k]), ux), RMul(RNum(ey[k]), uy))
    IN  [k \in Dirs |->
            LET tk == term(k)
            IN  RMul(RMul(weights[k], totalDensity),
                     RAdd(RAdd(RAdd(ROne, RMul(c1, tk)), RMul(c2, RMul(tk, tk))),
                          RMul(c3, u2)))]

\* a slip: the loop starts at i = 1 and leaves densities[0] as it was
collisionFromOne(densities, eqDist, tauArg) ==
    [k \in Dirs |-> IF k = 0 THEN densities[k]
                    ELSE RSub(densities[k], RDiv(RSub(densities[k], eqDist[k]), tauArg))]

\* densities[i] -= (densities[i] - eqDist[i]) / tau
collision(densities, eqDist, tauArg) ==
    [k \in Dirs |-> RSub(densities[k], RDiv(RSub(densities[k], eqDist[k]), tauArg))]

\* densities[i] -= omega * (densities[i] - eqDist[i])
fastCollision(densities, eqDist, omegaArg) ==
    [k \in Dirs |-> RSub(densities[k], RMul(omegaArg, RSub(densities[k], eqDist[k])))]

-----------------------------------------------------------------------------
(* The lattice: initLattice, LATTICE and GHOST_LATTICE *)

Range(seq) == {seq[k] : k \in DOMAIN seq}

fluidCell(cx, cy) ==
    [x |-> cx, y |-> cy, type |-> "fluid", velocity |-> <<RZero, RZero>>,
     ex |-> ex, ey |-> ey, density |-> weights]

solidCell(cx, cy) ==
    [x |-> cx, y |-> cy, type |-> "solid", velocity |-> <<RZero, RZero>>]

\* The Map after the fluid loop and then one cells.set per draw; draws[k] is the
\* k-th pair (Math.floor(Math.random() * cols), Math.floor(Math.random() * rows)).
initCells(draws) ==
    [c \in Coords |-> IF c \in Range(draws) THEN solidCell(c[1], c[2])
                      ELSE fluidCell(c[1], c[2])]

\* The object initLattice returns; its Map lives in the heap at cellsRef.
initLattice(cellsRef, draws) ==
    [cells |-> cellsRef, solidNodesIndices |-> draws, nx |-> cols, ny |-> rows]

\* Object.assign({}, source): a new object with source's own properties; a property
\* that holds a reference (cells) is copied as the same reference.
ObjectAssign(source) == [p \in DOMAIN source |-> source[p]]

\* lattice.length: the objects initLattice builds have no such property
latticeLength(lattice) ==
    IF "length" \in DOMAIN lattice THEN Num(RNum(lattice.length)) ELSE Undefined

\* Map.get with a key built from two JavaScript values (`${a},${b}`)
mapGet(cells, key) ==
    IF /\ key[1].tag = "num" /\ key[2].tag = "num"
       /\ key[1].val[2] = 1 /\ key[2].val[2] = 1
       /\ <<key[1].val[1], key[2].val[1]>> \in DOMAIN cells
    THEN cells[<<key[1].val[1], key[2].val[1]>>]
    ELSE Undefined

isCell(v) == "type" \in DOMAIN v

-----------------------------------------------------------------------------
(* reverseDir, getNextPos, propagate, bouncebackObstacles *)

\* switch (dir) { case dir.N: ... default: return dir.none }: for a number dir every
\* dir.N, dir.S, ... is undefined, no case matches and dir.none is undefined.
reverseDir(dir) == Undefined

\* The index pairs bouncebackObstacles reads: N<->S, NE<->SW, E<->W, SE<->NW
bouncebackIndex == [k \in Dirs |-> IF k = 0 THEN 0 ELSE IF k <= 4 THEN k + 4 ELSE k - 4]

\* `${x + ex[directionIndex]},${y - ex[directionIndex]}`
getNextPos(directionIndex, gx, gy) ==
    <<JsAdd(gx, RNum(ex[directionIndex])), JsSub(gy, RNum(ex[directionIndex]))>>

\* The cells the loops  for (x = 1; x < latticeSrc.length - 1; x++)
\*                        for (y = 1; y < latticeSrc.length - 1; y++)  visit.
sweepCells(latticeSrc) ==
    LET bound == JsSub(latticeLength(latticeSrc), ROne)
        top == IF bound.tag = "num" THEN bound.val[1] ELSE cols + rows
    IN  {c \in (1..top) \X (1..top) :
            JsLess(Num(RNum(c[1])), bound) /\ JsLess(Num(RNum(c[2])), bound)}

\* oldSrcCells is spread at server.js:321 and :350 but never declared
oldSrcCellsDeclared == FALSE

\* Whether the body of propagate's loop throws at cell c: reading .type of a missing
\* cell, reading .density of what getNextPos(k) (called without x and y) finds, or
\* spreading the undeclared oldSrcCells.
propagateThrowsAt(h, latticeSrc, c) ==
    LET oldSrcCell == mapGet(h[latticeSrc.cells], <<Num(RNum(c[1])), Num(RNum(c[2]))>>)
    IN  \/ ~isCell(oldSrcCell)
        \/ /\ oldSrcCell.type # "solid"
           /\ \/ \E k \in Dirs :
                    LET from == mapGet(h[latticeSrc.cells], getNextPos(k, Undefined, Undefined))
                    IN  ~isCell(from) \/ "density" \notin DOMAIN from
              \/ ~oldSrcCellsDeclared

bouncebackThrowsAt(h, latticeSrc, c) ==
    LET oldSrcCell == mapGet(h[latticeSrc.cells], <<Num(RNum(c[1])), Num(RNum(c[2]))>>)
    IN  \/ ~isCell(oldSrcCell)
        \/ /\ oldSrcCell.type = "solid"
           /\ \/ \E k \in Dirs :
                    LET from == mapGet(h[latticeSrc.cells], getNextPos(k, Undefined, Undefined))
                    IN  ~isCell(from) \/ "density" \notin DOMAIN from
              \/ ~oldSrcCellsDeclared

\* A visited solid cell always throws before latticeDest.cells.set is reached, so
\* bouncebackObstacles never writes: the heap it leaves is the heap it was given.
bouncebackObstacles(latticeSrc, latticeDest, h) ==
    [heap |-> h,
     threw |-> \E c \in sweepCells(latticeSrc) : bouncebackThrowsAt(h, latticeSrc, c)]

\* A visited fluid cell always throws before latticeDest.cells.set is reached and a
\* visited solid cell is skipped, so propagate itself never writes either.
propagate(latticeSrc, latticeDest, h) ==
    IF \E c \in sweepCells(latticeSrc) : propagateThrowsAt(h, latticeSrc, c)
    THEN [heap |-> h, threw |-> TRUE]
    ELSE bouncebackObstacles(latticeSrc, latticeDest, h)

-----------------------------------------------------------------------------
(* collideAndStream: one pass of the innermost loop body *)

\* let accelXTau = accelX * tau  (computed at server.js:378, passed to nothing)
accelXTauOf(ax) == RMul(ax, tau)

\* a slip: the spread of cell is forgotten, so x, y and type are lost
cellWithoutSpread(cell, densitiesAfterCollision, velocityVec) ==
    [density |-> densitiesAfterCollision, velocity |-> velocityVec]

\* { ...cell, density: densitiesAfterCollision, velocity: velocityVec }
cellAfterCollision(cell, densitiesAfterCollision, velocityVec) ==
    [cell EXCEPT !.density = densitiesAfterCollision, !.velocity = velocityVec]

\* let eqDist = await equilibrium(cell.density): called with one argument
eqDistOf(cell) == equilibrium(cell.density, Undefined, Undefined)

\* await collision(cell.density, eqDist, omega): the tau form, given omega
densitiesAfterCollisionOf(densities, eqDist, om) == collision(densities, eqDist, om)

\* if (cell && cell.type === "fluid")
shouldUpdate(cell) == isCell(cell) /\ cell.type = "fluid"

\* The heap after server.js:397-407 for cell c of the lattice `current`:
\* collision overwrites cell.density in place, then lattice.cells.set stores the
\* new cell object in LATTICE's Map.
heapAfterCell(h, current, lattice, c, om) ==
    LET cell == mapGet(h[current.cells], <<Num(RNum(c[1])), Num(RNum(c[2]))>>)
    IN  IF ~shouldUpdate(cell) THEN h
        ELSE LET eqDist == eqDistOf(cell)
                 after == densitiesAfterCollisionOf(cell.density, eqDist, om)
                 velocityVec == getVelocity(after)
                 h1 == [h EXCEPT ![current.cells][c].density = after]
             IN  [h1 EXCEPT ![lattice.cells][c] =
                        cellAfterCollision(h1[current.cells][c], after, velocityVec)]

\* processed += rows * cols
processedAfterStep(p) == p + rows * cols

\* a slip: t <= T_MAX
moreStepsInclusive(step) == step <= T_MAX

\* for (let t = 0; t < T_MAX; t++)
moreSteps(step) == step < T_MAX

UnitVarsUnchanged == UNCHANGED <<uF, uEq, uRelax, uAccel, uOut>>
ConfigUnchanged == UNCHANGED <<LATTICE, GHOST_LATTICE, omega, accelX>>

-----------------------------------------------------------------------------
(* simulate *)

\* await sleep(1000); let processed = 0; t = 0
Sleep ==
    /\ pc = "start"
    /\ pc' = "step"
    /\ processed' = 0
    /\ t' = 0
    /\ UNCHANGED <<heap, isGhost, y, x, i, currentLattice, yields, sweeps, collided,
                   srcBefore>>
    /\ ConfigUnchanged /\ UnitVarsUnchanged

\* t < T_MAX: collideAndStream(LATTICE, GHOST_LATTICE) is entered
CallCollideAndStream ==
    /\ pc = "step"
    /\ moreSteps(t)
    /\ pc' = IF rows > 0 /\ cols > 0 /\ STEPS_IN_FRAME > 0 THEN "collideAndStream"
             ELSE "stepEnd"
    /\ y' = 0 /\ x' = 0 /\ i' = 0
    /\ currentLattice' = "LATTICE"
    /\ sweeps' = 0
    /\ collided' = [c \in Coords |-> 0]
    /\ UNCHANGED <<heap, isGhost, t, processed, yields, srcBefore>>
    /\ ConfigUnchanged /\ UnitVarsUnchanged

\* The arguments of the propagate call at server.js:388-394 and what it returns
sweepSrc == IF isGhost THEN LATTICE ELSE GHOST_LATTICE
sweepDst == IF isGhost THEN GHOST_LATTICE ELSE LATTICE
sweepResult == propagate(sweepSrc, sweepDst, heap)

\* The control part of one pass of the body of  for (i ...) : the three loop
\* counters, and where the pass leaves collideAndStream.
IterControl ==
    /\ pc = "collideAndStream"
    /\ LET iEnd == i + 1 >= STEPS_IN_FRAME
           xEnd == iEnd /\ x + 1 >= cols
           yEnd == xEnd /\ y + 1 >= rows
       IN  IF sweepResult.threw
           THEN /\ pc' = "rejected"
                /\ UNCHANGED <<y, x, i>>
           ELSE /\ i' = IF iEnd THEN 0 ELSE i + 1
                /\ x' = IF xEnd THEN 0 ELSE IF iEnd THEN x + 1 ELSE x
                /\ y' = IF xEnd THEN y + 1 ELSE y
                /\ pc' = IF yEnd THEN "stepEnd" ELSE "collideAndStream"

\* The data part of the same pass at cell (x, y): propagate, the buffer toggle,
\* then equilibrium + collision of that one cell.
IterData ==
    IF sweepResult.threw
    THEN /\ heap' = sweepResult.heap
         /\ sweeps' = sweeps + 1
         /\ UNCHANGED <<isGhost, currentLattice, collided>>
    ELSE /\ heap' = heapAfterCell(sweepResult.heap, sweepDst, LATTICE, <<x, y>>, omega)
         /\ currentLattice' = IF isGhost THEN "GHOST_LATTICE" ELSE "LATTICE"
         /\ isGhost' = ~isGhost
         /\ sweeps' = sweeps + 1
         /\ collided' =
               IF shouldUpdate(mapGet(sweepResult.heap[sweepDst.cells],
                                      <<Num(RNum(x)), Num(RNum(y))>>))
               THEN [collided EXCEPT ![<<x, y>>] = @ + 1]
               ELSE collided

\* One pass of the body of  for (i ...)  at cell (x, y)
CollideAndStreamIter ==
    /\ IterControl
    /\ IterData
    /\ UNCHANGED <<t, processed, yields, srcBefore>>
    /\ ConfigUnchanged /\ UnitVarsUnchanged

\* collideAndStream has returned: processed += rows * cols; t++
EndStep ==
    /\ pc = "stepEnd"
    /\ processed' = processedAfterStep(processed)
    /\ t' = t + 1
    /\ pc' = "step"
    /\ UNCHANGED <<heap, isGhost, y, x, i, currentLattice, yields, sweeps, collided,
                   srcBefore>>
    /\ ConfigUnchanged /\ UnitVarsUnchanged

\* the loop is over: yield LATTICE
YieldLattice ==
    /\ pc = "step"
    /\ ~moreSteps(t)
    /\ yields' = yields + 1
    /\ pc' = "yielded"
    /\ UNCHANGED <<heap, isGhost, t, y, x, i, currentLattice, processed, sweeps,
                   collided, srcBefore>>
    /\ ConfigUnchanged /\ UnitVarsUnchanged

\* the consumer resumes the generator: the console.log lines, then it returns
Finish ==
    /\ pc = "yielded"
    /\ pc' = "done"
    /\ UNCHANGED <<heap, isGhost, t, y, x, i, currentLattice, processed, yields,
                   sweeps, collided, srcBefore>>
    /\ ConfigUnchanged /\ UnitVarsUnchanged

-----------------------------------------------------------------------------
(* The program: module load, then one run of simulate *)

UnitIdle ==
    /\ uF = weights /\ uEq = weights /\ uRelax = ROne /\ uAccel = Undefined
    /\ uOut = weights

\* The state after the module is loaded, for the obstacle draws `draws`, the
\* configured forcing ax and the Map contents `cells`.
Loaded(cells, draws, ax) ==
    /\ heap = <<cells>>
    /\ LATTICE = initLattice(1, draws)
    /\ GHOST_LATTICE = ObjectAssign(initLattice(1, draws))
    /\ isGhost = FALSE
    /\ omega = ROne
    /\ accelX = ax
    /\ t = 0 /\ y = 0 /\ x = 0 /\ i = 0
    /\ currentLattice = "LATTICE"
    /\ processed = 0
    /\ yields = 0
    /\ sweeps = 0
    /\ collided = [c \in Coords |-> 0]
    /\ srcBefore = <<>>

Init ==
    /\ \E draws \in [1..NumSolidDraws -> Coords] :
          Loaded(initCells(draws), draws, accelXConfigured)
    /\ pc = "start"
    /\ UnitIdle

Next ==
    \/ Sleep
    \/ CallCollideAndStream
    \/ CollideAndStreamIter
    \/ EndStep
    \/ YieldLattice
    \/ Finish

Spec == Init /\ [][Next]_vars

\* simulate is the only running coroutine: each of its awaits settles and its consumer resumes
\* it, so whichever step is possible is eventually taken.  The fairness of the loop
\* body is stated on IterControl and the variables it sets: inside Next a step of
\* IterControl is a step of CollideAndStreamIter, and the two are enabled in the
\* same states.
FairSpec ==
    /\ Spec
    /\ WF_vars(Sleep \/ CallCollideAndStream \/ EndStep \/ YieldLattice \/ Finish)
    /\ WF_<<pc, y, x, i>>(IterControl)

-----------------------------------------------------------------------------
(* The end-to-end scenario on a grid without obstacles: the same program with no
   obstacle draw, and with the forcing either zero or as configured *)

InitRest ==
    /\ \E ax \in {RZero, accelXConfigured} : Loaded(initCells(<<>>), <<>>, ax)
    /\ pc = "start"
    /\ UnitIdle

SpecRest == InitRest /\ [][Next]_vars

-----------------------------------------------------------------------------
(* One streaming sweep with no collision, on a lattice holding one impulse *)

\* Every fluid cell empty, except `amount` in direction d of cell c
impulseCells(draws, c, d, amount) ==
    [q \in Coords |->
        IF q \in Range(draws) THEN solidCell(q[1], q[2])
        ELSE [fluidCell(q[1], q[2]) EXCEPT
                 !.density = [k \in Dirs |-> IF q = c /\ k = d THEN RNum(amount)
                                             ELSE RZero]]]

InitStream ==
    /\ \E n \in {0, NumSolidDraws} : \E draws \in [1..n -> Coords] :
         \E c \in Coords \ Range(draws) : \E d \in Dirs : \E amount \in 1..MaxImpulse :
            Loaded(impulseCells(draws, c, d, amount), draws, accelXConfigured)
    /\ pc = "stream"
    /\ UnitIdle

\* await propagate(ghostLattice, lattice); currentLattice = lattice; isGhost = !isGhost
\* (server.js:392-395, the branch taken while isGhost is false)
StreamSweep ==
    /\ pc = "stream"
    /\ LET src == sweepSrc
           res == sweepResult
       IN  /\ srcBefore' = heap[src.cells]
           /\ heap' = res.heap
           /\ pc' = IF res.threw THEN "rejected" ELSE "streamed"
           /\ currentLattice' = IF isGhost THEN "GHOST_LATTICE" ELSE "LATTICE"
           /\ isGhost' = IF res.threw THEN isGhost ELSE ~isGhost
    /\ sweeps' = sweeps + 1
    /\ UNCHANGED <<t, y, x, i, processed, yields, collided>>
    /\ ConfigUnchanged /\ UnitVarsUnchanged

NextStream == StreamSweep

SpecStream == InitStream /\ [][NextStream]_vars

-----------------------------------------------------------------------------
(* equilibrium, collision and fastCollision applied to drawn inputs *)

W36 == [k \in Dirs |-> IF k = 0 THEN 16 ELSE IF k % 2 = 1 THEN 4 ELSE 1]

\* base times the rest-state weights plus up to two impulses, in units of 1/36
TestDists ==
    {[k \in Dirs |-> Rat(base * W36[k] + (IF k = p THEN b ELSE 0)
                                        + (IF k = q THEN c ELSE 0), 36)] :
        base \in 0..1, p \in Dirs, q \in Dirs, b \in 0..MaxImpulse, c \in 0..MaxImpulse}

\* equilibria to relax toward: base times the weights plus up to one impulse
EqDists ==
    {[k \in Dirs |-> Rat(base * W36[k] + (IF k = p THEN b ELSE 0), 36)] :
        base \in 0..1, p \in Dirs, b \in 0..MaxImpulse}

\* relaxation parameters in (0, 2): the configured tau, its inverse, the configured omega
RelaxSet == {<<1, 2>>, tau, ROne, RInv(tau)}

\* forcing arguments: none passed, zero, and a nonzero accelX * tau
AccelSet == {Undefined, Num(RZero), Num(<<1, 10>>)}

MainVarsUnchanged ==
    UNCHANGED <<heap, LATTICE, GHOST_LATTICE, isGhost, omega, accelX, t, y, x, i,
                currentLattice, processed, yields, sweeps, collided, srcBefore>>

InitCollide ==
    /\ Loaded(initCells(<<>>), <<>>, accelXConfigured)
    /\ pc = "input"
    /\ uF \in TestDists
    /\ uEq = weights /\ uRelax = ROne /\ uAccel = Undefined /\ uOut = weights

\* collision(f, feq, tau) for an feq of the same total
TestCollision ==
    /\ pc = "input"
    /\ \E feq \in EqDists : \E r \in RelaxSet :
          /\ getDensity(feq) = getDensity(uF)
          /\ uEq' = feq /\ uRelax' = r
          /\ uOut' = collision(uF, feq, r)
    /\ pc' = "collision"
    /\ UNCHANGED <<uF, uAccel>>
    /\ MainVarsUnchanged

\* fastCollision(f, feq, omega) for an feq of the same total
TestFastCollision ==
    /\ pc = "input"
    /\ \E feq \in EqDists : \E r \in RelaxSet :
          /\ getDensity(feq) = getDensity(uF)
          /\ uEq' = feq /\ uRelax' = r
          /\ uOut' = fastCollision(uF, feq, r)
    /\ pc' = "fastCollision"
    /\ UNCHANGED <<uF, uAccel>>
    /\ MainVarsUnchanged

\* feq = equilibrium(f, accelXTau, accelYTau), then collision(f, feq, tau)
TestEquilibrium ==
    /\ pc = "input"
    /\ \E a \in AccelSet : \E r \in RelaxSet :
          LET feq == equilibrium(uF, a, Num(accelY))
          IN  /\ uAccel' = a /\ uRelax' = r
              /\ uEq' = feq
              /\ uOut' = collision(uF, feq, r)
    /\ pc' = "equilibrium"
    /\ UNCHANGED uF
    /\ MainVarsUnchanged

\* what collideAndStream does to a fluid cell holding f when omega is r
TestDriver ==
    /\ pc = "input"
    /\ \E r \in RelaxSet :
          LET cell == [fluidCell(0, 0) EXCEPT !.density = uF]
              feq == eqDistOf(cell)
          IN  /\ uRelax' = r
              /\ uEq' = feq
              /\ uOut' = densitiesAfterCollisionOf(uF, feq, r)
    /\ pc' = "driver"
    /\ UNCHANGED <<uF, uAccel>>
    /\ MainVarsUnchanged

NextCollide == TestCollision \/ TestFastCollision \/ TestEquilibrium \/ TestDriver

SpecCollide == InitCollide /\ [][NextCollide]_vars

-----------------------------------------------------------------------------
(* State functions the properties below read *)

cellsL == heap[LATTICE.cells]
cellsG == heap[GHOST_LATTICE.cells]

\* the cells of the lattice the last sweep wrote
nextCells == IF currentLattice = "LATTICE" THEN cellsL ELSE cellsG

typeOfCell(cell) == IF "type" \in DOMAIN cell THEN cell.type ELSE "undefined"

FluidCoords(cells) == {c \in Coords : typeOfCell(cells[c]) = "fluid"}
SolidCoords(cells) == {c \in Coords : typeOfCell(cells[c]) = "solid"}

InteriorCoords == {c \in Coords : c[1] >= 1 /\ c[1] <= cols - 2 /\ c[2] >= 1 /\ c[2] <= rows - 2}

upstream(c, k) == <<c[1] - ex[k], c[2] - ey[k]>>
downstream(c, k) == <<c[1] + ex[k], c[2] + ey[k]>>

RECURSIVE SumOver(_, _)
\* the sum of g[c] over the coordinates c in S
SumOver(S, g) ==
    IF S = {} THEN RZero
    ELSE LET c == CHOOSE q \in S : TRUE IN RAdd(g[c], SumOver(S \ {c}, g))

totalMass(cells) ==
    SumOver(FluidCoords(cells), [c \in FluidCoords(cells) |-> getDensity(cells[c].density)])
totalMomentumX(cells) ==
    SumOver(FluidCoords(cells), [c \in FluidCoords(cells) |-> momentumX(cells[c].density)])

-----------------------------------------------------------------------------
(* C1 -- streaming pull rule *)

\* C1: after one streaming sweep with no collision, every interior fluid cell whose
\* upstream neighbours are all fluid holds, in each direction k, the value its
\* upstream neighbour (x - ex_k, y - ey_k) held in direction k before the sweep.
CE_C1_PullRule ==
    pc = "streamed" =>
        \A c \in InteriorCoords :
            (/\ typeOfCell(nextCells[c]) = "fluid"
             /\ \A k \in Dirs : typeOfCell(srcBefore[upstream(c, k)]) = "fluid")
            => \A k \in Dirs :
                  nextCells[c].density[k] = srcBefore[upstream(c, k)].density[k]

-----------------------------------------------------------------------------
(* C2 -- double-buffer isolation *)

\* C2: LATTICE and GHOST_LATTICE are two distinct cell stores of identical
\* dimensions, so that a write into one is never seen through the other.
CE_C2_DistinctStores ==
    /\ LATTICE.cells # GHOST_LATTICE.cells
    /\ LATTICE.nx = GHOST_LATTICE.nx /\ LATTICE.ny = GHOST_LATTICE.ny

-----------------------------------------------------------------------------
(* C3 -- step structure *)

\* C3: when a time step's collideAndStream has returned, it has made exactly one
\* streaming sweep and has collided every fluid cell exactly once (and no solid cell).
CE_C3_OneSweepOneCollision ==
    pc = "stepEnd" =>
        /\ sweeps = 1
        /\ \A c \in Coords :
              collided[c] = IF typeOfCell(cellsL[c]) = "fluid" THEN 1 ELSE 0

-----------------------------------------------------------------------------
(* C4 -- bounce-back *)

\* C4: after a sweep, for every direction k and every fluid cell with a solid
\* neighbour in direction k, what the cell held in direction k before the sweep is
\* in that cell in direction reverse(k); and the total mass is unchanged.
CE_C4_BounceBack ==
    pc = "streamed" =>
        /\ \A c \in FluidCoords(srcBefore) : \A k \in Dirs :
              (/\ downstream(c, k) \in Coords
               /\ typeOfCell(srcBefore[downstream(c, k)]) = "solid")
              => nextCells[c].density[bouncebackIndex[k]] = srcBefore[c].density[k]
        /\ totalMass(nextCells) = totalMass(srcBefore)

-----------------------------------------------------------------------------
(* C5 -- the driver's run *)

Completed == pc \in {"yielded", "done"}

-----------------------------------------------------------------------------
(* C6 -- collision conserves mass *)

\* C6: for f and feq of equal total, the nine components after collision or
\* fastCollision sum to what f summed to, for any relaxation parameter; and the
\* equilibrium that equilibrium() computes from f (with or without forcing) has f's
\* total, so a cell's density is the same before and after its collision.
C6_CollisionConservesMass ==
    /\ (pc \in {"collision", "fastCollision"} /\ getDensity(uEq) = getDensity(uF))
          => getDensity(uOut) = getDensity(uF)
    /\ pc \in {"equilibrium", "driver"}
          => /\ getDensity(uEq) = getDensity(uF)
             /\ getDensity(uOut) = getDensity(uF)

W_C6_Relaxed ==
    /\ pc = "collision"
    /\ uRelax # ROne
    /\ uEq[0] # uF[0]
    /\ uOut # uF /\ uOut # uEq

-----------------------------------------------------------------------------
(* C7 -- the two relaxation parameters *)

\* C7: collision with tau equals fastCollision with omega = 1/tau; the configured
\* omega is 1/tau; and the driver's relaxation of a cell with rate omega is
\* f - omega * (f - feq) for every omega in (0, 2).
CE_C7_RelaxationConsistent ==
    /\ pc = "collision" => uOut = fastCollision(uF, uEq, RInv(uRelax))
    /\ pc = "driver" => /\ RMul(omega, tau) = ROne
                        /\ uOut = fastCollision(uF, uEq, uRelax)

-----------------------------------------------------------------------------
(* C8 -- solid cells are fixed and inert *)

\* C8: no cell's type ever changes; the solid cells are those initLattice drew and
\* all others are fluid; only fluid cells are collided; a solid cell's velocity
\* stays (0, 0).
C8_SolidInert ==
    /\ [][\A c \in Coords :
            typeOfCell(heap'[LATTICE'.cells][c]) = typeOfCell(heap[LATTICE.cells][c])]_vars
    /\ [](/\ SolidCoords(cellsL) = Range(LATTICE.solidNodesIndices)
          /\ FluidCoords(cellsL) = Coords \ Range(LATTICE.solidNodesIndices)
          /\ SolidCoords(cellsG) = SolidCoords(cellsL))
    /\ [](\A c \in SolidCoords(cellsL) :
             cellsL[c].velocity = <<RZero, RZero>> /\ collided[c] = 0)

W_C8_SteppedWithSolid ==
    /\ pc = "done"
    /\ SolidCoords(cellsL) # {}
    /\ \E c \in FluidCoords(cellsL) : collided[c] > 0

-----------------------------------------------------------------------------
(* C9 -- the rest state is a fixed point *)

\* C9: without obstacles, from the rest-state weights, with zero forcing and
\* omega = 1, every cell's density is rho0 and its velocity (0, 0) after any number
\* of cell updates; and equilibrium of such a cell is w_k * rho in every direction.
C9_RestFixedPoint ==
    (accelX = RZero /\ omega = ROne /\ SolidCoords(cellsL) = {}) =>
        \A c \in Coords :
            /\ getDensity(cellsL[c].density) = rho0
            /\ cellsL[c].velocity = <<RZero, RZero>>
            /\ getVelocity(cellsL[c].density) = <<RZero, RZero>>
            /\ \A k \in Dirs :
                  equilibrium(cellsL[c].density, Num(accelXTauOf(accelX)), Num(accelY))[k]
                     = RMul(weights[k], getDensity(cellsL[c].density))

W_C9_RanAtRest ==
    /\ pc = "done" /\ t = T_MAX
    /\ accelX = RZero /\ omega = ROne /\ SolidCoords(cellsL) = {}
    /\ \A c \in Coords : collided[c] > 0

-----------------------------------------------------------------------------
(* C10 -- forcing *)

\* C10: with accelX > 0 on a grid without obstacles, starting from rest, the total
\* x-momentum of the fluid cells has grown (from zero) once a time step is done.
CE_C10_MomentumGrows ==
    (RPos(accelX) /\ SolidCoords(cellsL) = {} /\ t >= 1) =>
        RPos(totalMomentumX(cellsL))

====
